---- MODULE Spec2Model ----
(***************************************************************************)
(* Model of MeetingMinutesATS: the chunked transcription pipeline of       *)
(* src/src/transcribe.py (WhisperTranscriber, MemoryGuard) and the text    *)
(* pipeline of src/src/postprocess.py (PunctuationCorrector,               *)
(* SpeakerSegmenter, TranscriptFormatter, PostProcessor).                  *)
(*                                                                         *)
(* Times are integers counted in ticks, TicksPerSecond ticks to a second,  *)
(* so that a float duration such as 2.5 s is representable; int(x) of the  *)
(* code is the division by TicksPerSecond.  A string is a sequence of      *)
(* one-character strings; a non-ASCII character is written by its code     *)
(* point, "u3002" being the ideographic full stop.                         *)
(***************************************************************************)
EXTENDS Integers, Sequences, FiniteSets, TLC

(* ------------------------------ bounds -------------------------------- *)

TicksPerSecond == 2
MaxDurationTicks == 8
MaxChunkSize == 2
MaxRuns == 2
MaxCombineChunks == 2
MaxTextLen == 5
MaxMaxChars == 3
MaxCorrectLen == 4
MaxCorrectCalls == 3
MaxUsage == 7
MaxProcessTextLen == 3
MaxProcessSegments == 2
MaxFormatTicks == 140
RecordTicks == 2

(* ------------------------- program constants -------------------------- *)

DEFAULT_CHUNK_SIZE == 300
DEFAULT_MAX_SEGMENT_CHARS == 500

VARIABLES
    pc,              \* position of WhisperTranscriber.transcribe
    run,             \* number of transcribe calls started so far
    audio_duration,  \* the true duration of the audio file, in ticks
    duration,        \* transcribe's local: what the probe returned, in ticks
    chunk_size,      \* self.chunk_size, in seconds
    chunk_start,     \* the loop variable of transcribe, in seconds
    chunk_end,       \* transcribe's local, in ticks
    chunks,          \* transcribe's local list of chunk results
    full_result,     \* transcribe's local: the combined result, or NoResult
    checkpoint,      \* the file output_path + ".temp": absent or a chunk list
    final_output,    \* the file output_path: absent or a combined result
    srt_output,      \* the file *.transcript.srt: absent or its entries
    clips,           \* the temp_chunk_<s>_<e>.wav files on disk
    extract_ok,      \* whether ffmpeg's exit status of this window was 0
    active,          \* inference calls entered and not yet left
    inferLog,        \* history: chunk_start of each inference call of this run
    extractFailed,   \* history: an extraction of this run failed
    finalWritten,    \* history: this run wrote final_output
    failedAt,        \* history: NoFailure, or the stage and window of the failure
    checkpointAtStart, \* history: the checkpoint file when this run started
    combineInput,    \* history: the chunk list _combine_chunks was called with
    seg_pc,          \* position of SpeakerSegmenter.segment_by_speaker
    seg_text,        \* its argument text
    max_chars,       \* self.max_chars
    sentences,       \* its local list of sentences
    sent_idx,        \* the index in sentences of the loop's next sentence
    segments,        \* its local list of finished segments
    current_segment, \* its local buffer, a list of sentences
    char_count,      \* its local character count of the buffer
    flushLog,        \* history: per sentence handled, what the loop body did
    cor_pc,          \* position of PunctuationCorrector.correct
    cor_input,       \* the text the first call of correct was given
    cor_text,        \* its argument and local text
    cor_rule,        \* the index in self.replacements of the loop's next pattern
    cor_outputs,     \* history: what each call of correct returned
    guard_pc,        \* position in "with MemoryGuard(): ..."
    has_get_active_memory, \* hasattr(mx, "get_active_memory")
    has_clear_cache, \* hasattr(mx, "clear_cache")
    active_memory,   \* the usage the allocator would report now
    start_mem,       \* self.start_mem
    body_raised,     \* whether the body of the with statement raised
    guard_raised,    \* history: __enter__ or __exit__ raised
    cache_clears,    \* history: the number of mx.clear_cache() calls
    diagnostics,     \* history: the messages __exit__ printed
    entry_usage,     \* history: the usage when the scope was entered
    entry_failed,    \* history: the measurement of __enter__ raised
    exit_failed,     \* history: a call made by __exit__ raised
    proc_pc,         \* position of PostProcessor.process
    transcription,   \* the transcription loaded from input_path
    corrected_text,  \* its local corrected_text
    processed_segments, \* its local list processed_segments
    segment_idx,     \* the index in the segments of the loop's next segment
    speaker_segments, \* its local speaker_segments
    formatted,       \* history: what format_transcript returned
    processed,       \* the file output_path: absent or the processed result
    text_output,     \* the file *.txt: absent or its text
    fmt_seconds,     \* the time the two formatters are called with, in ticks
    time_text,       \* what format_time returned, << >> before the call
    timestamp_text,  \* what _format_timestamp returned, << >> before the call
    thread_pc,       \* position of the thread running recording_process_thread
    progress_window, \* the progress window: "open" or "destroyed"
    cancel,          \* recording_process.cancel
    process_state,   \* the rec process: "none", "spawned", "recording", "exited"
    captured,        \* the audio the rec process has captured, in half seconds
    elapsed,         \* time.time() - start_time as the loop saw it, in half seconds
    returncode,      \* process.returncode: << >> for None, or <<code>>
    success,         \* what record_audio returned: "none", "True" or "False"
    recording_file,  \* whether the file output_path exists
    cancelledWhileRunning, \* history: cancel was pressed while rec was running
    prompted,        \* history: the "transcribe now?" prompt was shown
    transcriptionStarted, \* history: transcribe_audio was called
    callbackRaised,  \* history: progress_callback raised inside record_audio
    recorderFailed   \* history: the rec process ended with an error of its own

pipelineVars == <<pc, run, audio_duration, duration, chunk_size, chunk_start,
                  chunk_end, chunks, full_result, checkpoint, final_output,
                  srt_output, clips, extract_ok, active, inferLog,
                  extractFailed, finalWritten, failedAt, checkpointAtStart,
                  combineInput>>

segmenterVars == <<seg_pc, seg_text, max_chars, sentences, sent_idx, segments,
                   current_segment, char_count, flushLog>>

correctorVars == <<cor_pc, cor_input, cor_text, cor_rule, cor_outputs>>

guardVars == <<guard_pc, has_get_active_memory, has_clear_cache, active_memory,
               start_mem, body_raised, guard_raised, cache_clears,
               diagnostics, entry_usage, entry_failed, exit_failed>>

processVars == <<proc_pc, transcription, corrected_text, processed_segments,
                 segment_idx, speaker_segments, formatted, processed,
                 text_output>>

formatVars == <<fmt_seconds, time_text, timestamp_text>>

recorderVars == <<thread_pc, progress_window, cancel, process_state,
                  captured, elapsed, returncode, success, recording_file,
                  cancelledWhileRunning, prompted, transcriptionStarted,
                  callbackRaised, recorderFailed>>

vars == <<pipelineVars, segmenterVars, correctorVars, guardVars, processVars,
          formatVars, recorderVars>>

\* what the steps of each part of the program leave alone
nonPipelineVars == <<segmenterVars, correctorVars, guardVars, processVars,
                     formatVars, recorderVars>>
nonSegmenterVars == <<pipelineVars, correctorVars, guardVars, processVars,
                      formatVars, recorderVars>>
nonCorrectorVars == <<pipelineVars, segmenterVars, guardVars, processVars,
                      formatVars, recorderVars>>
nonGuardVars == <<pipelineVars, segmenterVars, correctorVars, processVars,
                  formatVars, recorderVars>>
nonProcessVars == <<pipelineVars, segmenterVars, correctorVars, guardVars,
                    formatVars, recorderVars>>
nonFormatVars == <<pipelineVars, segmenterVars, correctorVars, guardVars,
                   processVars, recorderVars>>
nonRecorderVars == <<pipelineVars, segmenterVars, correctorVars, guardVars,
                     processVars, formatVars>>

\* a file is absent, << >>, or holds one content, <<content>>
NoFile == << >>
File(content) == <<content>>
Content(file) == file[1]
NoResult == "no result"
NoFailure == [stage |-> "none", window |-> 0]

(* ------------------------------ helpers ------------------------------- *)

Min(a, b) == IF a <= b THEN a ELSE b

\* int(x) of a non-negative time given in ticks: whole seconds
IntSeconds(t) == t \div TicksPerSecond

\* a whole number of seconds as ticks
Sec(n) == n * TicksPerSecond

DEFAULT_LANGUAGE == <<"z", "h">>

\* What the opaque inference engine may return for a clip: text and
\* clip-relative segments.
InferenceResults ==
    { [text |-> <<"a">>,
       segments |-> <<[start |-> 0, end |-> 1, text |-> <<"a">>]>>],
      [text |-> <<"b">>,
       segments |-> << >>] }

(* --------------------------- _combine_chunks --------------------------- *)

ShiftSegmentsStartOnly(segs, off) ==
    [i \in 1..Len(segs) |-> [segs[i] EXCEPT !.start = @ + off]]

ShiftSegmentsNone(segs, off) == segs

\* the inner loop: segment["start"] += start_time; segment["end"] += ...
ShiftSegments(segs, off) ==
    [i \in 1..Len(segs) |->
        [segs[i] EXCEPT !.start = @ + off, !.end = @ + off]]

\* combined["text"] += chunk["text"] + " "
AppendChunkText(text, chunk) == text \o chunk.text \o <<" ">>

RECURSIVE CombineFrom(_, _, _)
CombineFrom(cs, i, acc) ==
    IF i > Len(cs) THEN acc
    ELSE LET shifted == ShiftSegments(cs[i].segments, cs[i].start_time)
         IN  CombineFrom(cs, i + 1,
                 [combined |->
                     [text |-> AppendChunkText(acc.combined.text, cs[i]),
                      segments |-> acc.combined.segments \o shifted,
                      language |-> acc.combined.language],
                  chunks |->
                     Append(acc.chunks, [cs[i] EXCEPT !.segments = shifted])])

\* _combine_chunks: the combined result, and the chunk list as the in-place
\* update of its segments leaves it
CombineChunksResult(cs) ==
    CombineFrom(cs, 1,
        [combined |-> [text |-> << >>, segments |-> << >>,
                       language |-> DEFAULT_LANGUAGE],
         chunks |-> << >>])

(* -------------------------- _format_timestamp -------------------------- *)

Digit(n) == CASE n = 0 -> "0" [] n = 1 -> "1" [] n = 2 -> "2" [] n = 3 -> "3"
              [] n = 4 -> "4" [] n = 5 -> "5" [] n = 6 -> "6" [] n = 7 -> "7"
              [] n = 8 -> "8" [] OTHER -> "9"

RECURSIVE Decimal(_)
Decimal(n) == IF n < 10 THEN <<Digit(n)>>
              ELSE Append(Decimal(n \div 10), Digit(n % 10))

RECURSIVE ZeroPad(_, _)
\* the format specs :02d and :03d
ZeroPad(s, width) == IF Len(s) >= width THEN s ELSE ZeroPad(<<"0">> \o s, width)

FormatTimestampWholeSeconds(t) ==
    LET hours == IntSeconds(t) \div 3600
        rest == t % Sec(3600)
        minutes == IntSeconds(rest) \div 60
        rest2 == rest % Sec(60)
        secs == IntSeconds(rest2)
    IN  ZeroPad(Decimal(hours), 2) \o <<":">> \o ZeroPad(Decimal(minutes), 2)
        \o <<":">> \o ZeroPad(Decimal(secs), 2) \o <<",">>
        \o ZeroPad(Decimal(0), 3)

\* _format_timestamp(seconds), the time given in ticks
FormatTimestamp(t) ==
    LET hours == IntSeconds(t) \div 3600
        rest == t % Sec(3600)
        minutes == IntSeconds(rest) \div 60
        rest2 == rest % Sec(60)
        secs == IntSeconds(rest2)
        milliseconds == ((rest2 - Sec(secs)) * 1000) \div TicksPerSecond
    IN  ZeroPad(Decimal(hours), 2) \o <<":">> \o ZeroPad(Decimal(minutes), 2)
        \o <<":">> \o ZeroPad(Decimal(secs), 2) \o <<",">>
        \o ZeroPad(Decimal(milliseconds), 3)

\* _save_as_srt: one entry per segment
SrtEntries(result) ==
    [i \in 1..Len(result.segments) |->
        [index |-> i,
         start |-> FormatTimestamp(result.segments[i].start),
         end |-> FormatTimestamp(result.segments[i].end),
         text |-> result.segments[i].text]]

(* ------------------------------ transcribe ----------------------------- *)

\* temp_chunk_{int(start_time)}_{int(end_time)}.wav
ChunkFile(start, endTicks) == <<start, IntSeconds(endTicks)>>

ClipExists(name) == \E c \in clips : c.name = name

\* range(0, int(duration), self.chunk_size): whether the loop has a next value
RangeHasNext(start, dur) == start < IntSeconds(dur)

NextChunkStartStuck(start, size) == start

\* the step of the range
NextChunkStart(start, size) == start + size

\* chunk_end = min(chunk_start + self.chunk_size, duration)
ChunkEnd(start, size, dur) == Min(Sec(start + size), dur)

CheckpointLastOnly(cs) == <<cs[Len(cs)]>>

\* json.dump(chunks, f) into a file opened with "w"
CheckpointContent(cs) == cs

\* no transcribe call has been made and no file is on disk
PipelineIdle ==
    /\ pc = "idle"
    /\ run = 0
    /\ audio_duration = 0
    /\ duration = 0
    /\ chunk_size = 1
    /\ chunk_start = 0
    /\ chunk_end = 0
    /\ chunks = << >>
    /\ full_result = NoResult
    /\ checkpoint = NoFile
    /\ final_output = NoFile
    /\ srt_output = NoFile
    /\ clips = {}
    /\ extract_ok = TRUE
    /\ active = 0
    /\ inferLog = << >>
    /\ extractFailed = FALSE
    /\ finalWritten = FALSE
    /\ failedAt = NoFailure
    /\ checkpointAtStart = NoFile
    /\ combineInput = << >>

\* segment_by_speaker has not been called
SegmenterIdle ==
    /\ seg_pc = "idle"
    /\ seg_text = << >>
    /\ max_chars = 1
    /\ sentences = << >>
    /\ sent_idx = 1
    /\ segments = << >>
    /\ current_segment = << >>
    /\ char_count = 0
    /\ flushLog = << >>

CorrectorIdle ==
    /\ cor_pc = "idle"
    /\ cor_input = << >>
    /\ cor_text = << >>
    /\ cor_rule = 1
    /\ cor_outputs = << >>

GuardIdle ==
    /\ guard_pc = "idle"
    /\ has_get_active_memory = FALSE
    /\ has_clear_cache = FALSE
    /\ active_memory = 0
    /\ start_mem = 0
    /\ body_raised = FALSE
    /\ guard_raised = FALSE
    /\ cache_clears = 0
    /\ diagnostics = << >>
    /\ entry_usage = 0
    /\ entry_failed = FALSE
    /\ exit_failed = FALSE

ProcessIdle ==
    /\ proc_pc = "idle"
    /\ transcription = [text |-> << >>, segments |-> << >>,
                        language |-> DEFAULT_LANGUAGE]
    /\ corrected_text = << >>
    /\ processed_segments = << >>
    /\ segment_idx = 1
    /\ speaker_segments = << >>
    /\ formatted = << >>
    /\ processed = << >>
    /\ text_output = << >>

FormatIdle ==
    /\ fmt_seconds = 0
    /\ time_text = << >>
    /\ timestamp_text = << >>

RecorderIdle ==
    /\ thread_pc = "idle"
    /\ progress_window = "open"
    /\ cancel = FALSE
    /\ process_state = "none"
    /\ captured = 0
    /\ elapsed = 0
    /\ returncode = << >>
    /\ success = "none"
    /\ recording_file = FALSE
    /\ cancelledWhileRunning = FALSE
    /\ prompted = FALSE
    /\ transcriptionStarted = FALSE
    /\ callbackRaised = FALSE
    /\ recorderFailed = FALSE

Init ==
    /\ RecorderIdle
    /\ FormatIdle
    /\ ProcessIdle
    /\ GuardIdle
    /\ CorrectorIdle
    /\ PipelineIdle
    /\ SegmenterIdle

\* main() calls transcribe(audio_path, output): a new run of the program over
\* the same output path; the files of earlier runs are still on disk.
StartTranscribe ==
    /\ pc \in {"idle", "done", "aborted"}
    /\ run < MaxRuns
    /\ \E d \in 1..MaxDurationTicks, size \in 1..MaxChunkSize :
          /\ audio_duration' = d
          /\ chunk_size' = size
    /\ run' = run + 1
    /\ pc' = "probe"
    /\ duration' = 0
    /\ chunk_start' = 0
    /\ chunk_end' = 0
    /\ chunks' = << >>
    /\ full_result' = NoResult
    /\ extract_ok' = TRUE
    /\ inferLog' = << >>
    /\ extractFailed' = FALSE
    /\ finalWritten' = FALSE
    /\ failedAt' = NoFailure
    /\ checkpointAtStart' = checkpoint
    /\ combineInput' = << >>
    /\ UNCHANGED nonPipelineVars
    /\ UNCHANGED <<checkpoint, final_output, srt_output, clips, active>>

\* duration = self.get_audio_duration(audio_path); chunks = []
GetAudioDuration ==
    /\ pc = "probe"
    /\ duration' = audio_duration
    /\ chunk_start' = 0
    /\ pc' = "loop"
    /\ UNCHANGED nonPipelineVars
    /\ UNCHANGED <<run, audio_duration, chunk_size, chunk_end, chunks,
                   full_result, checkpoint, final_output, srt_output, clips,
                   extract_ok, active, inferLog, extractFailed, finalWritten,
                   failedAt, checkpointAtStart, combineInput>>

\* subprocess.check_output raises (ffprobe fails), or float(output) does
GetAudioDurationRaises ==
    /\ pc = "probe"
    /\ pc' = "aborted"
    /\ failedAt' = [stage |-> "probe", window |-> 0]
    /\ UNCHANGED nonPipelineVars
    /\ UNCHANGED <<run, audio_duration, duration, chunk_size, chunk_start,
                   chunk_end, chunks, full_result, checkpoint, final_output,
                   srt_output, clips, extract_ok, active, inferLog,
                   extractFailed, finalWritten, checkpointAtStart,
                   combineInput>>

\* the head of "for chunk_start in range(0, int(duration), self.chunk_size)"
\* and the computation of chunk_end
LoopNext ==
    /\ pc = "loop"
    /\ IF RangeHasNext(chunk_start, duration)
       THEN /\ chunk_end' = ChunkEnd(chunk_start, chunk_size, duration)
            /\ pc' = "extract"
       ELSE /\ chunk_end' = chunk_end
            /\ pc' = "combine"
    /\ UNCHANGED nonPipelineVars
    /\ UNCHANGED <<run, audio_duration, duration, chunk_size, chunk_start,
                   chunks, full_result, checkpoint, final_output, srt_output,
                   clips, extract_ok, active, inferLog, extractFailed,
                   finalWritten, failedAt, checkpointAtStart, combineInput>>

\* _process_audio_chunk: os.system("ffmpeg -y ... {chunk_file}"); the exit
\* status is not looked at.  A failing ffmpeg leaves the file system as it is.
ExtractChunk ==
    /\ pc = "extract"
    /\ LET name == ChunkFile(chunk_start, chunk_end)
       IN  \/ /\ clips' = {c \in clips : c.name # name}
                            \cup {[name |-> name, run |-> run]}
              /\ extract_ok' = TRUE
              /\ extractFailed' = extractFailed
           \/ /\ clips' = clips
              /\ extract_ok' = FALSE
              /\ extractFailed' = TRUE
    /\ pc' = "guard"
    /\ UNCHANGED nonPipelineVars
    /\ UNCHANGED <<run, audio_duration, duration, chunk_size, chunk_start,
                   chunk_end, chunks, full_result, checkpoint, final_output,
                   srt_output, active, inferLog, finalWritten, failedAt,
                   checkpointAtStart, combineInput>>

\* with MemoryGuard(): the call of mlx_whisper.transcribe begins
InferenceBegin ==
    /\ pc = "guard"
    /\ active' = active + 1
    /\ inferLog' = Append(inferLog, chunk_start)
    /\ pc' = "infer"
    /\ UNCHANGED nonPipelineVars
    /\ UNCHANGED <<run, audio_duration, duration, chunk_size, chunk_start,
                   chunk_end, chunks, full_result, checkpoint, final_output,
                   srt_output, clips, extract_ok, extractFailed, finalWritten,
                   failedAt, checkpointAtStart, combineInput>>

\* mlx_whisper.transcribe returns; os.remove(chunk_file); the timing fields
\* are added; transcribe appends the result to chunks
InferenceReturns ==
    /\ pc = "infer"
    /\ ClipExists(ChunkFile(chunk_start, chunk_end))
    /\ \E r \in InferenceResults :
          chunks' = Append(chunks,
                       [text |-> r.text, segments |-> r.segments,
                        start_time |-> Sec(chunk_start),
                        end_time |-> chunk_end])
    /\ clips' = {c \in clips : c.name # ChunkFile(chunk_start, chunk_end)}
    /\ active' = active - 1
    /\ pc' = "save"
    /\ UNCHANGED nonPipelineVars
    /\ UNCHANGED <<run, audio_duration, duration, chunk_size, chunk_start,
                   chunk_end, full_result, checkpoint, final_output,
                   srt_output, extract_ok, inferLog, extractFailed,
                   finalWritten, failedAt, checkpointAtStart, combineInput>>

InferenceRaisesDeletingCheckpoint ==
    /\ pc = "infer"
    /\ active' = active - 1
    /\ failedAt' = [stage |-> IF extract_ok THEN "inference" ELSE "extraction",
                    window |-> chunk_start]
    /\ checkpoint' = NoFile
    /\ pc' = "aborted"
    /\ UNCHANGED nonPipelineVars
    /\ UNCHANGED <<run, audio_duration, duration, chunk_size, chunk_start,
                   chunk_end, chunks, full_result, final_output,
                   srt_output, clips, extract_ok, inferLog, extractFailed,
                   finalWritten, checkpointAtStart, combineInput>>

\* mlx_whisper.transcribe raises (always when the clip file is missing); the
\* exception leaves _process_audio_chunk and transcribe
InferenceRaises ==
    /\ pc = "infer"
    /\ active' = active - 1
    /\ failedAt' = [stage |-> IF extract_ok THEN "inference" ELSE "extraction",
                    window |-> chunk_start]
    /\ pc' = "aborted"
    /\ UNCHANGED nonPipelineVars
    /\ UNCHANGED <<run, audio_duration, duration, chunk_size, chunk_start,
                   chunk_end, chunks, full_result, checkpoint, final_output,
                   srt_output, clips, extract_ok, inferLog, extractFailed,
                   finalWritten, checkpointAtStart, combineInput>>

\* self._save_incremental_result(chunks, output_path), and the loop's step
SaveIncrementalResult ==
    /\ pc = "save"
    /\ checkpoint' = File(CheckpointContent(chunks))
    /\ chunk_start' = NextChunkStart(chunk_start, chunk_size)
    /\ pc' = "loop"
    /\ UNCHANGED nonPipelineVars
    /\ UNCHANGED <<run, audio_duration, duration, chunk_size, chunk_end,
                   chunks, full_result, final_output, srt_output, clips,
                   extract_ok, active, inferLog, extractFailed, finalWritten,
                   failedAt, checkpointAtStart, combineInput>>

\* full_result = self._combine_chunks(chunks)
CombineChunks ==
    /\ pc = "combine"
    /\ combineInput' = chunks
    /\ full_result' = CombineChunksResult(chunks).combined
    /\ chunks' = CombineChunksResult(chunks).chunks
    /\ pc' = "write"
    /\ UNCHANGED nonPipelineVars
    /\ UNCHANGED <<run, audio_duration, duration, chunk_size, chunk_start,
                   chunk_end, checkpoint, final_output, srt_output, clips,
                   extract_ok, active, inferLog, extractFailed, finalWritten,
                   failedAt, checkpointAtStart>>

\* json.dump(full_result, f) into output_path; self._save_as_srt(...)
WriteFinal ==
    /\ pc = "write"
    /\ final_output' = File(full_result)
    /\ srt_output' = File(SrtEntries(full_result))
    /\ finalWritten' = TRUE
    /\ pc' = "done"
    /\ UNCHANGED nonPipelineVars
    /\ UNCHANGED <<run, audio_duration, duration, chunk_size, chunk_start,
                   chunk_end, chunks, full_result, checkpoint, clips,
                   extract_ok, active, inferLog, extractFailed, failedAt,
                   checkpointAtStart, combineInput>>

Next ==
    \/ StartTranscribe
    \/ GetAudioDuration
    \/ GetAudioDurationRaises
    \/ LoopNext
    \/ ExtractChunk
    \/ InferenceBegin
    \/ InferenceReturns
    \/ InferenceRaises
    \/ SaveIncrementalResult
    \/ CombineChunks
    \/ WriteFinal

Spec == Init /\ [][Next]_vars

(* ------------------- _combine_chunks on its own ----------------------- *)

\* Inputs of _combine_chunks: chunk lists over two windows of the default
\* size, with segments inside and (the last one) beyond the window.
SegA == [start |-> Sec(10), end |-> Sec(12), text |-> <<"a">>]
SegB == [start |-> Sec(5), end |-> Sec(7), text |-> <<"b">>]
SegFar == [start |-> Sec(400), end |-> Sec(401), text |-> <<"c">>]

SegmentLists ==
    { << >>, <<SegA>>, <<SegB>>, <<SegB, SegA>>, <<SegA, SegB>>,
      <<SegA, SegA>>, <<SegFar>>, <<SegA, SegFar>> }

WindowPool ==
    { <<0, Sec(DEFAULT_CHUNK_SIZE)>>,
      <<Sec(DEFAULT_CHUNK_SIZE), Sec(2 * DEFAULT_CHUNK_SIZE)>> }

ChunkPool ==
    { [text |-> t, segments |-> sl, start_time |-> w[1], end_time |-> w[2]] :
        t \in {<<"a">>, <<"b">>}, sl \in SegmentLists, w \in WindowPool }

BoundedSeq(S, n) == UNION { [1..k -> S] : k \in 0..n }

InitCombine ==
    /\ RecorderIdle
    /\ FormatIdle
    /\ ProcessIdle
    /\ GuardIdle
    /\ CorrectorIdle
    /\ pc = "combine"
    /\ run = 1
    /\ audio_duration = 0
    /\ duration = 0
    /\ chunk_size = DEFAULT_CHUNK_SIZE
    /\ chunk_start = 0
    /\ chunk_end = 0
    /\ chunks \in BoundedSeq(ChunkPool, MaxCombineChunks)
    /\ full_result = NoResult
    /\ checkpoint = NoFile
    /\ final_output = NoFile
    /\ srt_output = NoFile
    /\ clips = {}
    /\ extract_ok = TRUE
    /\ active = 0
    /\ inferLog = << >>
    /\ extractFailed = FALSE
    /\ finalWritten = FALSE
    /\ failedAt = NoFailure
    /\ checkpointAtStart = NoFile
    /\ combineInput = << >>
    /\ SegmenterIdle

NextCombine ==
    \/ CombineChunks
    \/ WriteFinal

SpecCombine == InitCombine /\ [][NextCombine]_vars

(* ---------------- SpeakerSegmenter.segment_by_speaker ----------------- *)

\* the characters of the class [。.!?] of the split pattern
SentenceEnders == {"u3002", ".", "!", "?"}

\* \s, for the characters the inputs are made of
IsSpace(c) == c \in {" "}

UpperCase == {"A", "B", "C", "D", "E", "F", "G", "H", "I", "J", "K", "L", "M",
              "N", "O", "P", "Q", "R", "S", "T", "U", "V", "W", "X", "Y", "Z"}

LowerCase == {"a", "b", "c", "d", "e", "f", "g", "h", "i", "j", "k", "l", "m",
              "n", "o", "p", "q", "r", "s", "t", "u", "v", "w", "x", "y", "z"}

RECURSIVE SplitFrom(_, _, _, _, _)
\* re.split(r'(?<=[。.!?])\s*', text): a piece ends after each sentence ender,
\* the white space that follows it is dropped, and what is left after the
\* last ender (possibly nothing) is the last piece
SplitFrom(text, i, cur, skipping, pieces) ==
    IF i > Len(text) THEN Append(pieces, cur)
    ELSE IF skipping /\ IsSpace(text[i])
         THEN SplitFrom(text, i + 1, cur, TRUE, pieces)
    ELSE IF text[i] \in SentenceEnders
         THEN SplitFrom(text, i + 1, << >>, TRUE, Append(pieces, Append(cur, text[i])))
    ELSE SplitFrom(text, i + 1, Append(cur, text[i]), FALSE, pieces)

NotBlankAlways(piece) == TRUE

\* s.strip() is not empty
NotBlank(piece) == \E i \in 1..Len(piece) : ~IsSpace(piece[i])

\* sentences = [s for s in re.split(...) if s.strip()]
SplitSentences(text) ==
    SelectSeq(SplitFrom(text, 1, << >>, FALSE, << >>), NotBlank)

\* the literal alternatives of the two speaker_patterns
MarkerLiterals ==
    { <<"u597d", "u7684">>,
      <<"u90a3", "u9ebc">>,
      <<"u6240", "u4ee5">>,
      <<"u63a5", "u4e0b", "u4f86">>,
      <<"u9996", "u5148">>,
      <<"u6700", "u5f8c">>,
      <<"u53e6", "u5916">>,
      <<"u6b64", "u5916">>,
      <<"u7136", "u5f8c">>,
      <<"u4f46", "u662f">>,
      <<"u4e0d", "u904e">>,
      <<"u56e0", "u6b64">>,
      <<"u7e3d", "u4e4b">>,
      <<"u7e3d", "u7d50">>,
      <<"u8b1d", "u8b1d">>,
      <<"u611f", "u8b1d">>,
      <<"u8acb", "u554f">>,
      <<"u6211", "u60f3", "u554f">>,
      <<"u6211", "u8a8d", "u70ba">>,
      <<"u6211", "u89ba", "u5f97">>,
      <<"A", "c", "c", "o", "r", "d", "i", "n", "g", " ", "t", "o">>,
      <<"I", "n", " ", "m", "y", " ", "o", "p", "i", "n", "i", "o", "n">>,
      <<"I", " ", "t", "h", "i", "n", "k">>,
      <<"I", " ", "b", "e", "l", "i", "e", "v", "e">>,
      <<"L", "e", "t", " ", "m", "e">>,
      <<"T", "h", "a", "n", "k", " ", "y", "o", "u">> }

\* m occurs in s at position i
OccursAt(s, m, i) ==
    /\ i >= 1
    /\ i + Len(m) - 1 <= Len(s)
    /\ SubSeq(s, i, i + Len(m) - 1) = m

\* the alternative [A-Z][a-z]+ said, matched from position i
NameSaidAt(s, i) ==
    /\ i <= Len(s)
    /\ s[i] \in UpperCase
    /\ \E j \in (i + 1)..Len(s) :
          /\ \A k \in (i + 1)..j : s[k] \in LowerCase
          /\ OccursAt(s, <<" ", "s", "a", "i", "d">>, j + 1)

HasMarkerAtStart(sentence) ==
    \/ \E m \in MarkerLiterals : OccursAt(sentence, m, 1)
    \/ NameSaidAt(sentence, 1)

\* any(pattern.search(sentence) for pattern in self.compiled_patterns)
HasMarker(sentence) ==
    \E i \in 1..Len(sentence) :
        \/ \E m \in MarkerLiterals : OccursAt(sentence, m, i)
        \/ NameSaidAt(sentence, i)

RECURSIVE Join(_)
\* ''.join(current_segment)
Join(parts) == IF parts = << >> THEN << >> ELSE Head(parts) \o Join(Tail(parts))

ExceedsLimitIgnoringSentence(count, length, limit) == count > limit

\* char_count + s_length > self.max_chars
ExceedsLimit(count, length, limit) == count + length > limit

\* the texts segment_by_speaker is called with: every string of at most
\* MaxTextLen characters over a small alphabet in which a discourse marker
\* can be spelled, and two longer texts
SegmenterAlphabet == {"u597d", "u7684", "u3002", " ", "a"}

ScenarioText ==
    <<"u5927", "u5bb6", "u597d", "uff0c", "u9019", "u662f", "u7b2c", "u4e00",
      "u9ede", "u3002", "u63a5", "u4e0b", "u4f86", "u6211", "u5011", "u8a0e",
      "u8ad6", "u7b2c", "u4e8c", "u9ede", "u3002", "T", "h", "a", "n", "k",
      " ", "y", "o", "u", " ", "f", "o", "r", " ", "j", "o", "i", "n", "i",
      "n", "g", ".">>

NameSaidText ==
    <<"O", "k", ".", " ", "B", "o", "b", " ", "s", "a", "i", "d", " ", "h",
      "i", ".">>

SegmenterTexts ==
    BoundedSeq(SegmenterAlphabet, MaxTextLen) \cup {ScenarioText, NameSaidText}

MaxCharsChoices == (1..MaxMaxChars) \cup {50}

InitSegment ==
    /\ RecorderIdle
    /\ FormatIdle
    /\ ProcessIdle
    /\ GuardIdle
    /\ CorrectorIdle
    /\ PipelineIdle
    /\ seg_pc = "start"
    /\ seg_text \in SegmenterTexts
    /\ max_chars \in MaxCharsChoices
    /\ sentences = << >>
    /\ sent_idx = 1
    /\ segments = << >>
    /\ current_segment = << >>
    /\ char_count = 0
    /\ flushLog = << >>

\* the split, the filter and the initialisation of the locals
SegmenterSplit ==
    /\ seg_pc = "start"
    /\ sentences' = SplitSentences(seg_text)
    /\ sent_idx' = 1
    /\ segments' = << >>
    /\ current_segment' = << >>
    /\ char_count' = 0
    /\ seg_pc' = "loop"
    /\ UNCHANGED <<seg_text, max_chars, flushLog>>
    /\ UNCHANGED nonSegmenterVars

SegmenterSentenceUnguardedMarker ==
    /\ seg_pc = "loop"
    /\ sent_idx <= Len(sentences)
    /\ LET sentence == sentences[sent_idx]
           s_length == Len(sentence)
           limitFlush == ExceedsLimit(char_count, s_length, max_chars)
                         /\ current_segment # << >>
           segments1 == IF limitFlush
                        THEN Append(segments, Join(current_segment))
                        ELSE segments
           current1 == IF limitFlush THEN << >> ELSE current_segment
           count1 == IF limitFlush THEN 0 ELSE char_count
           markerFlush == HasMarker(sentence)
           segments2 == IF markerFlush
                        THEN Append(segments1, Join(current1))
                        ELSE segments1
           current2 == IF markerFlush THEN << >> ELSE current1
           count2 == IF markerFlush THEN 0 ELSE count1
       IN  /\ segments' = segments2
           /\ current_segment' = Append(current2, sentence)
           /\ char_count' = count2 + s_length
           /\ flushLog' = Append(flushLog,
                             [bufferBefore |-> Len(current_segment),
                              limitFlush |-> limitFlush,
                              markerFlush |-> markerFlush,
                              bufferAfter |-> Len(current2) + 1])
    /\ sent_idx' = sent_idx + 1
    /\ UNCHANGED <<seg_pc, seg_text, max_chars, sentences>>
    /\ UNCHANGED nonSegmenterVars

\* one pass of the body of "for sentence in sentences"
SegmenterSentence ==
    /\ seg_pc = "loop"
    /\ sent_idx <= Len(sentences)
    /\ LET sentence == sentences[sent_idx]
           s_length == Len(sentence)
           limitFlush == ExceedsLimit(char_count, s_length, max_chars)
                         /\ current_segment # << >>
           segments1 == IF limitFlush
                        THEN Append(segments, Join(current_segment))
                        ELSE segments
           current1 == IF limitFlush THEN << >> ELSE current_segment
           count1 == IF limitFlush THEN 0 ELSE char_count
           is_speaker_change == current1 # << >> /\ HasMarker(sentence)
           markerFlush == is_speaker_change /\ current1 # << >>
           segments2 == IF markerFlush
                        THEN Append(segments1, Join(current1))
                        ELSE segments1
           current2 == IF markerFlush THEN << >> ELSE current1
           count2 == IF markerFlush THEN 0 ELSE count1
       IN  /\ segments' = segments2
           /\ current_segment' = Append(current2, sentence)
           /\ char_count' = count2 + s_length
           /\ flushLog' = Append(flushLog,
                             [bufferBefore |-> Len(current_segment),
                              limitFlush |-> limitFlush,
                              markerFlush |-> markerFlush,
                              bufferAfter |-> Len(current2) + 1])
    /\ sent_idx' = sent_idx + 1
    /\ UNCHANGED <<seg_pc, seg_text, max_chars, sentences>>
    /\ UNCHANGED nonSegmenterVars

SegmenterReturnDroppingBuffer ==
    /\ seg_pc = "loop"
    /\ sent_idx > Len(sentences)
    /\ segments' = segments
    /\ seg_pc' = "done"
    /\ UNCHANGED <<seg_text, max_chars, sentences, sent_idx, current_segment,
                   char_count, flushLog>>
    /\ UNCHANGED nonSegmenterVars

\* after the loop: "if current_segment: segments.append(...)"; return segments
SegmenterReturn ==
    /\ seg_pc = "loop"
    /\ sent_idx > Len(sentences)
    /\ segments' = IF current_segment # << >>
                   THEN Append(segments, Join(current_segment))
                   ELSE segments
    /\ seg_pc' = "done"
    /\ UNCHANGED <<seg_text, max_chars, sentences, sent_idx, current_segment,
                   char_count, flushLog>>
    /\ UNCHANGED nonSegmenterVars

NextSegment ==
    \/ SegmenterSplit
    \/ SegmenterSentence
    \/ SegmenterReturn

SpecSegment == InitSegment /\ [][NextSegment]_vars

(* ------------------- PunctuationCorrector.correct ---------------------- *)

\* \d and \w, for the characters the inputs are made of
DigitChars == {"0", "1", "2", "3", "4", "5", "6", "7", "8", "9"}
Ideographs == {"u597d", "u7684", "u5e74", "u5927", "u5bb6"}
LatinLetters == LowerCase \cup UpperCase
IsWord(c) == c \in LatinLetters \cup DigitChars \cup Ideographs \cup {"_"}

\* the classes [，。], [.!?] and [,;] of the patterns
FullWidthStops == {"uff0c", "u3002"}
AsciiEnders == {".", "!", "?"}
CommaSemicolon == {",", ";"}
YearSign == "u5e74"
PossessiveDe == "u7684"
DoubleQuote == "u0022"

\* Each pattern is applied as re.sub applies it: the text is scanned from the
\* left, the leftmost match is replaced, and the scan goes on after the match.

RECURSIVE ChineseEnglishConversion(_, _)
\* r'(\w)([，。]) ?([A-Z])' -> r'\1. \3'
ChineseEnglishConversion(s, i) ==
    IF i > Len(s) THEN << >>
    ELSE IF /\ i + 3 <= Len(s)
            /\ IsWord(s[i])
            /\ s[i + 1] \in FullWidthStops
            /\ s[i + 2] = " "
            /\ s[i + 3] \in UpperCase
         THEN <<s[i], ".", " ", s[i + 3]>> \o ChineseEnglishConversion(s, i + 4)
    ELSE IF /\ i + 2 <= Len(s)
            /\ IsWord(s[i])
            /\ s[i + 1] \in FullWidthStops
            /\ s[i + 2] \in UpperCase
         THEN <<s[i], ".", " ", s[i + 2]>> \o ChineseEnglishConversion(s, i + 3)
    ELSE <<s[i]>> \o ChineseEnglishConversion(s, i + 1)

RECURSIVE DigitsEnd(_, _)
\* the index after the digits that \d+ takes from index i
DigitsEnd(s, i) ==
    IF i <= Len(s) /\ s[i] \in DigitChars THEN DigitsEnd(s, i + 1) ELSE i

RECURSIVE DateFormatCorrection(_, _)
\* r'(\d+)[的]?年' -> r'\1年'
DateFormatCorrection(s, i) ==
    IF i > Len(s) THEN << >>
    ELSE LET j == DigitsEnd(s, i)
         IN  IF j > i /\ j <= Len(s) /\ s[j] = YearSign
             THEN SubSeq(s, i, j - 1) \o <<YearSign>>
                      \o DateFormatCorrection(s, j + 1)
             ELSE IF /\ j > i
                     /\ j + 1 <= Len(s)
                     /\ s[j] = PossessiveDe
                     /\ s[j + 1] = YearSign
                  THEN SubSeq(s, i, j - 1) \o <<YearSign>>
                           \o DateFormatCorrection(s, j + 2)
             ELSE <<s[i]>> \o DateFormatCorrection(s, i + 1)

RECURSIVE EnglishSentenceEnding(_, _)
\* r'([a-zA-Z])([，。])' -> r'\1.'
EnglishSentenceEnding(s, i) ==
    IF i > Len(s) THEN << >>
    ELSE IF /\ i + 1 <= Len(s)
            /\ s[i] \in LatinLetters
            /\ s[i + 1] \in FullWidthStops
         THEN <<s[i], ".">> \o EnglishSentenceEnding(s, i + 2)
    ELSE <<s[i]>> \o EnglishSentenceEnding(s, i + 1)

RECURSIVE SpacingAroundPunctuation(_, _)
\* r'(\w)([.!?]) ?([a-zA-Z])' -> r'\1\2 \3'
SpacingAroundPunctuation(s, i) ==
    IF i > Len(s) THEN << >>
    ELSE IF /\ i + 3 <= Len(s)
            /\ IsWord(s[i])
            /\ s[i + 1] \in AsciiEnders
            /\ s[i + 2] = " "
            /\ s[i + 3] \in LatinLetters
         THEN <<s[i], s[i + 1], " ", s[i + 3]>>
                  \o SpacingAroundPunctuation(s, i + 4)
    ELSE IF /\ i + 2 <= Len(s)
            /\ IsWord(s[i])
            /\ s[i + 1] \in AsciiEnders
            /\ s[i + 2] \in LatinLetters
         THEN <<s[i], s[i + 1], " ", s[i + 2]>>
                  \o SpacingAroundPunctuation(s, i + 3)
    ELSE <<s[i]>> \o SpacingAroundPunctuation(s, i + 1)

RECURSIVE SpacesEnd(_, _)
\* the index after the spaces that ' +' takes from index i
SpacesEnd(s, i) == IF i <= Len(s) /\ s[i] = " " THEN SpacesEnd(s, i + 1) ELSE i

RECURSIVE MultipleSpaces(_, _)
\* r' +' -> r' '
MultipleSpaces(s, i) ==
    IF i > Len(s) THEN << >>
    ELSE IF s[i] = " " THEN <<" ">> \o MultipleSpaces(s, SpacesEnd(s, i))
    ELSE <<s[i]>> \o MultipleSpaces(s, i + 1)

RECURSIVE SpaceAfterPeriod(_, _)
\* r'(\.)([A-Za-z])' -> r'\1 \2'
SpaceAfterPeriod(s, i) ==
    IF i > Len(s) THEN << >>
    ELSE IF i + 1 <= Len(s) /\ s[i] = "." /\ s[i + 1] \in LatinLetters
         THEN <<".", " ", s[i + 1]>> \o SpaceAfterPeriod(s, i + 2)
    ELSE <<s[i]>> \o SpaceAfterPeriod(s, i + 1)

RECURSIVE PunctuationCombinations(_, _)
\* r'([.!?])([,;])' -> r'\1'
PunctuationCombinations(s, i) ==
    IF i > Len(s) THEN << >>
    ELSE IF /\ i + 1 <= Len(s)
            /\ s[i] \in AsciiEnders
            /\ s[i + 1] \in CommaSemicolon
         THEN <<s[i]>> \o PunctuationCombinations(s, i + 2)
    ELSE <<s[i]>> \o PunctuationCombinations(s, i + 1)

RECURSIVE QuoteEnd(_, _)
\* the index of the first double quote at or after index i, Len(s) + 1 if none
QuoteEnd(s, i) ==
    IF i > Len(s) \/ s[i] = DoubleQuote THEN i ELSE QuoteEnd(s, i + 1)

RECURSIVE QuotationMarks(_, _)
\* r'"([^"]*)"' -> r'"\1"'
QuotationMarks(s, i) ==
    IF i > Len(s) THEN << >>
    ELSE LET j == QuoteEnd(s, i + 1)
         IN  IF s[i] = DoubleQuote /\ j <= Len(s)
             THEN <<DoubleQuote>> \o SubSeq(s, i + 1, j - 1) \o <<DoubleQuote>>
                      \o QuotationMarks(s, j + 1)
             ELSE <<s[i]>> \o QuotationMarks(s, i + 1)

\* the number of entries of self.replacements
ReplacementCount == 8

\* re.sub(pattern, repl, text) for the k-th entry of self.replacements
ApplyReplacement(k, text) ==
    CASE k = 1 -> ChineseEnglishConversion(text, 1)
      [] k = 2 -> DateFormatCorrection(text, 1)
      [] k = 3 -> EnglishSentenceEnding(text, 1)
      [] k = 4 -> SpacingAroundPunctuation(text, 1)
      [] k = 5 -> MultipleSpaces(text, 1)
      [] k = 6 -> SpaceAfterPeriod(text, 1)
      [] k = 7 -> PunctuationCombinations(text, 1)
      [] OTHER -> QuotationMarks(text, 1)

RECURSIVE CorrectFrom(_, _)
\* the loop of correct from the k-th entry on
CorrectFrom(k, text) ==
    IF k > ReplacementCount THEN text
    ELSE CorrectFrom(k + 1, ApplyReplacement(k, text))

\* correct(text)
Correct(text) == CorrectFrom(1, text)

\* the texts correct is called with: every text over the punctuation
\* alphabet up to MaxCorrectLen characters, and texts for the patterns that
\* need a capital, a digit or a quotation mark
CorrectorAlphabet == {"a", ".", ",", ";", " ", "uff0c", "u3002"}

CorrectorScenarios ==
    { <<"u597d", "u3002", "A">>,
      <<"a", "uff0c", " ", "B", "u3002">>,
      <<"2", "0", "2", "4", "u7684", "u5e74">>,
      <<"1", "u5e74", "a", "?", "b">>,
      <<"u0022", "a", " ", " ", "b", "u0022", ".", "c">>,
      <<"a", "!", ";", "u0022">>,
      <<"u201c", "a", "u201d", " ", "u0022", "b", "u0022">> }

CorrectorTexts ==
    BoundedSeq(CorrectorAlphabet, MaxCorrectLen) \cup CorrectorScenarios

InitCorrect ==
    /\ RecorderIdle
    /\ FormatIdle
    /\ ProcessIdle
    /\ GuardIdle
    /\ PipelineIdle
    /\ SegmenterIdle
    /\ cor_pc = "idle"
    /\ cor_input \in CorrectorTexts
    /\ cor_text = << >>
    /\ cor_rule = 1
    /\ cor_outputs = << >>

\* a call correct(text): the first call is given the input, a later one what
\* the call before it returned
CorrectCall ==
    /\ cor_pc = "idle"
    /\ Len(cor_outputs) < MaxCorrectCalls
    /\ cor_text' = IF cor_outputs = << >> THEN cor_input
                   ELSE cor_outputs[Len(cor_outputs)]
    /\ cor_rule' = 1
    /\ cor_pc' = "loop"
    /\ UNCHANGED <<cor_input, cor_outputs>>
    /\ UNCHANGED nonCorrectorVars

\* one pass of "for pattern, repl in self.replacements.items()"
CorrectReplacement ==
    /\ cor_pc = "loop"
    /\ cor_rule <= ReplacementCount
    /\ cor_text' = ApplyReplacement(cor_rule, cor_text)
    /\ cor_rule' = cor_rule + 1
    /\ UNCHANGED <<cor_pc, cor_input, cor_outputs>>
    /\ UNCHANGED nonCorrectorVars

\* return text
CorrectReturn ==
    /\ cor_pc = "loop"
    /\ cor_rule > ReplacementCount
    /\ cor_outputs' = Append(cor_outputs, cor_text)
    /\ cor_pc' = "idle"
    /\ UNCHANGED <<cor_input, cor_text, cor_rule>>
    /\ UNCHANGED nonCorrectorVars

NextCorrect == CorrectCall \/ CorrectReplacement \/ CorrectReturn

SpecCorrect == InitCorrect /\ [][NextCorrect]_vars

(* ----------------------------- MemoryGuard ------------------------------ *)

\* what a call of mx.get_active_memory() or mx.clear_cache() may do: return,
\* or raise an exception of one of these classes, all derived from Exception
ErrorClasses == {"RuntimeError", "MemoryError"}
CallOutcomes == {"returns"} \cup ErrorClasses

\* the except clause of __enter__ is bare
EnterCatches(e) == TRUE

ExitCatchesRuntimeErrorOnly(e) == e = "RuntimeError"

\* the except clause of __exit__ is "except Exception"
ExitCatches(e) == e \in ErrorClasses

ExceedsBaselineOnAnyGrowth(current, start) == current > start

\* current_mem > self.start_mem * 1.2, the usages being whole numbers: the
\* float product compares with a whole number as 6 * start / 5 does
ExceedsBaseline(current, start) == 5 * current > 6 * start

InitGuard ==
    /\ RecorderIdle
    /\ FormatIdle
    /\ ProcessIdle
    /\ PipelineIdle
    /\ SegmenterIdle
    /\ CorrectorIdle
    /\ guard_pc = "idle"
    /\ has_get_active_memory \in BOOLEAN
    /\ has_clear_cache \in BOOLEAN
    /\ active_memory \in 0..MaxUsage
    /\ start_mem = 0
    /\ body_raised = FALSE
    /\ guard_raised = FALSE
    /\ cache_clears = 0
    /\ diagnostics = << >>
    /\ entry_usage = 0
    /\ entry_failed = FALSE
    /\ exit_failed = FALSE

\* MemoryGuard.__enter__, the measurement doing what outcome says
GuardEnter(outcome) ==
    /\ guard_pc = "idle"
    /\ LET raised == has_get_active_memory /\ outcome # "returns"
       IN  /\ start_mem' = IF has_get_active_memory /\ ~raised
                           THEN active_memory ELSE 0
           /\ entry_failed' = raised
           /\ guard_raised' = (raised /\ ~EnterCatches(outcome))
    /\ entry_usage' = active_memory
    /\ guard_pc' = "body"
    /\ UNCHANGED <<has_get_active_memory, has_clear_cache, active_memory,
                   body_raised, cache_clears, diagnostics, exit_failed>>
    /\ UNCHANGED nonGuardVars

\* the body of the with statement, mlx_whisper.transcribe(...): it returns or
\* raises, and the usage of the allocator is whatever it left
GuardBody(usage, raises) ==
    /\ guard_pc = "body"
    /\ ~guard_raised
    /\ active_memory' = usage
    /\ body_raised' = raises
    /\ guard_pc' = "exit"
    /\ UNCHANGED <<has_get_active_memory, has_clear_cache, start_mem,
                   guard_raised, cache_clears, diagnostics, entry_usage,
                   entry_failed, exit_failed>>
    /\ UNCHANGED nonGuardVars

\* MemoryGuard.__exit__, called when the body returned and when it raised;
\* measure and clear say what the two calls do if they are made
GuardExit(measure, clear) ==
    /\ guard_pc = "exit"
    /\ LET measured == has_get_active_memory /\ measure = "returns"
           measureRaised == has_get_active_memory /\ measure # "returns"
           current_mem == active_memory
           clearCalled == /\ measured
                          /\ ExceedsBaseline(current_mem, start_mem)
                          /\ has_clear_cache
           clearRaised == clearCalled /\ clear # "returns"
           error == IF measureRaised THEN measure ELSE clear
           raised == measureRaised \/ clearRaised
       IN  /\ cache_clears' = IF clearCalled THEN cache_clears + 1
                              ELSE cache_clears
           /\ exit_failed' = raised
           /\ guard_raised' = (raised /\ ~ExitCatches(error))
           /\ diagnostics' =
                 IF ~has_get_active_memory
                 THEN Append(diagnostics, "Memory management not available")
                 ELSE IF raised
                      THEN IF ExitCatches(error)
                           THEN Append(diagnostics, "Memory management error")
                           ELSE diagnostics
                 ELSE Append(diagnostics, "Memory reclaimed")
    /\ guard_pc' = "done"
    /\ UNCHANGED <<has_get_active_memory, has_clear_cache, active_memory,
                   start_mem, body_raised, entry_usage, entry_failed>>
    /\ UNCHANGED nonGuardVars

NextGuard ==
    \/ \E outcome \in CallOutcomes : GuardEnter(outcome)
    \/ \E usage \in 0..MaxUsage, raises \in BOOLEAN : GuardBody(usage, raises)
    \/ \E measure \in CallOutcomes, clear \in CallOutcomes :
          GuardExit(measure, clear)

SpecGuard == InitGuard /\ [][NextGuard]_vars

(* --------------- TranscriptFormatter and PostProcessor ----------------- *)

\* the line feed "\n"
LineFeed == "u000a"

\* format_time(seconds), the time given in ticks
FormatTimeTotalMinutes(t) ==
    LET hours == IntSeconds(t) \div 3600
        minutes == IntSeconds(t) \div 60
        seconds == IntSeconds(t % Sec(60))
    IN  ZeroPad(Decimal(hours), 2) \o <<":">> \o ZeroPad(Decimal(minutes), 2)
            \o <<":">> \o ZeroPad(Decimal(seconds), 2)

FormatTime(t) ==
    LET hours == IntSeconds(t) \div 3600
        minutes == IntSeconds(t % Sec(3600)) \div 60
        seconds == IntSeconds(t % Sec(60))
    IN  ZeroPad(Decimal(hours), 2) \o <<":">> \o ZeroPad(Decimal(minutes), 2)
            \o <<":">> \o ZeroPad(Decimal(seconds), 2)

RECURSIVE LStrip(_)
LStrip(text) ==
    IF text # << >> /\ IsSpace(Head(text)) THEN LStrip(Tail(text)) ELSE text

RECURSIVE RStrip(_)
RStrip(text) ==
    IF text # << >> /\ IsSpace(text[Len(text)])
    THEN RStrip(SubSeq(text, 1, Len(text) - 1))
    ELSE text

\* text.strip()
Strip(text) == RStrip(LStrip(text))

RECURSIVE JoinWith(_, _)
\* sep.join(parts)
JoinWith(sep, parts) ==
    IF parts = << >> THEN << >>
    ELSE IF Len(parts) = 1 THEN parts[1]
    ELSE parts[1] \o sep \o JoinWith(sep, Tail(parts))

\* f"[{start_time} - {end_time}] {text}"
FormatEntry(segment) ==
    <<"[">> \o FormatTime(segment.start) \o <<" ", "-", " ">>
        \o FormatTime(segment.end) \o <<"]", " ">> \o Strip(segment.text)

\* format_transcript(segments)
FormatTranscript(segs) ==
    JoinWith(<<LineFeed, LineFeed>>, [i \in 1..Len(segs) |-> FormatEntry(segs[i])])

\* "\n\n=== Speaker Segmented Version ===\n\n"
SpeakerVersionHeading ==
    <<LineFeed, LineFeed, "=", "=", "=", " ", "S", "p", "e", "a", "k", "e",
      "r", " ", "S", "e", "g", "m", "e", "n", "t", "e", "d", " ", "V", "e",
      "r", "s", "i", "o", "n", " ", "=", "=", "=", LineFeed, LineFeed>>

\* the transcriptions process is given: a text over ProcessAlphabet and up to
\* MaxProcessSegments segments
ProcessAlphabet == {"a", " ", "u3002"}

ProcessSegmentPool ==
    { [start |-> 0, end |-> Sec(65) + 1, text |-> <<"a", "u3002">>],
      [start |-> Sec(65) + 1, end |-> Sec(3661),
       text |-> <<" ", "a", ".", " ", "b", " ">>],
      [start |-> Sec(3661), end |-> Sec(36059), text |-> << >>],
      [start |-> Sec(59), end |-> Sec(60),
       text |-> <<"u597d", "uff0c", "A">>] }

InitProcess ==
    /\ RecorderIdle
    /\ FormatIdle
    /\ PipelineIdle
    /\ CorrectorIdle
    /\ GuardIdle
    /\ proc_pc = "start"
    /\ transcription \in
          [text : BoundedSeq(ProcessAlphabet, MaxProcessTextLen),
           segments : BoundedSeq(ProcessSegmentPool, MaxProcessSegments),
           language : {DEFAULT_LANGUAGE}]
    /\ corrected_text = << >>
    /\ processed_segments = << >>
    /\ segment_idx = 1
    /\ speaker_segments = << >>
    /\ formatted = << >>
    /\ processed = NoFile
    /\ text_output = NoFile
    /\ seg_pc = "idle"
    /\ seg_text = << >>
    /\ max_chars \in {MaxMaxChars, DEFAULT_MAX_SEGMENT_CHARS}
    /\ sentences = << >>
    /\ sent_idx = 1
    /\ segments = << >>
    /\ current_segment = << >>
    /\ char_count = 0
    /\ flushLog = << >>

\* corrected_text = self.punctuation_corrector.correct(full_text)
ProcessFullText ==
    /\ proc_pc = "start"
    /\ corrected_text' = Correct(transcription.text)
    /\ processed_segments' = << >>
    /\ segment_idx' = 1
    /\ proc_pc' = "segments"
    /\ UNCHANGED <<transcription, speaker_segments, formatted, processed,
                   text_output>>
    /\ UNCHANGED nonProcessVars

\* one pass of "for segment in transcription.get('segments', [])"
ProcessSegment ==
    /\ proc_pc = "segments"
    /\ segment_idx <= Len(transcription.segments)
    /\ LET segment == transcription.segments[segment_idx]
       IN  processed_segments' =
              Append(processed_segments,
                     [segment EXCEPT !.text = Correct(segment.text)])
    /\ segment_idx' = segment_idx + 1
    /\ UNCHANGED <<proc_pc, transcription, corrected_text, speaker_segments,
                   formatted, processed, text_output>>
    /\ UNCHANGED nonProcessVars

\* the call self.speaker_segmenter.segment_by_speaker(corrected_text)
ProcessCallSegmenter ==
    /\ proc_pc = "segments"
    /\ segment_idx > Len(transcription.segments)
    /\ seg_text' = corrected_text
    /\ seg_pc' = "start"
    /\ proc_pc' = "speaker"
    /\ UNCHANGED <<transcription, corrected_text, processed_segments,
                   segment_idx, speaker_segments, formatted, processed,
                   text_output>>
    /\ UNCHANGED <<max_chars, sentences, sent_idx, segments, current_segment,
                   char_count, flushLog>>
    /\ UNCHANGED <<pipelineVars, correctorVars, guardVars, formatVars,
                   recorderVars>>

\* segment_by_speaker has returned: the processed result is built and saved,
\* and the readable text version is written
ProcessSave ==
    /\ proc_pc = "speaker"
    /\ seg_pc = "done"
    /\ speaker_segments' = segments
    /\ processed' = File([text |-> corrected_text,
                          segments |-> processed_segments,
                          speaker_segments |-> segments,
                          language |-> transcription.language])
    /\ formatted' = FormatTranscript(processed_segments)
    /\ text_output' = File(FormatTranscript(processed_segments)
                              \o SpeakerVersionHeading
                              \o JoinWith(<<LineFeed, LineFeed>>, segments))
    /\ proc_pc' = "done"
    /\ UNCHANGED <<transcription, corrected_text, processed_segments,
                   segment_idx>>
    /\ UNCHANGED nonProcessVars

NextProcess ==
    \/ ProcessFullText
    \/ ProcessSegment
    \/ ProcessCallSegmenter
    \/ SegmenterSplit
    \/ SegmenterSentence
    \/ SegmenterReturn
    \/ ProcessSave

SpecProcess == InitProcess /\ [][NextProcess]_vars

(* ------------------ the two time formatters on their own --------------- *)

\* the times the formatters are called with: every time up to
\* MaxFormatTicks, and times of an hour and more
FormatTimes ==
    (0..MaxFormatTicks)
        \cup {Sec(3599) + 1, Sec(3600), Sec(3661) + 1, Sec(36059)}

InitFormat ==
    /\ RecorderIdle
    /\ PipelineIdle
    /\ SegmenterIdle
    /\ CorrectorIdle
    /\ GuardIdle
    /\ ProcessIdle
    /\ fmt_seconds \in FormatTimes
    /\ time_text = << >>
    /\ timestamp_text = << >>

\* the call TranscriptFormatter.format_time(seconds)
CallFormatTime ==
    /\ time_text = << >>
    /\ time_text' = FormatTime(fmt_seconds)
    /\ UNCHANGED <<fmt_seconds, timestamp_text>>
    /\ UNCHANGED nonFormatVars

\* the call WhisperTranscriber._format_timestamp(seconds)
CallFormatTimestamp ==
    /\ timestamp_text = << >>
    /\ timestamp_text' = FormatTimestamp(fmt_seconds)
    /\ UNCHANGED <<fmt_seconds, time_text>>
    /\ UNCHANGED nonFormatVars

NextFormat == CallFormatTime \/ CallFormatTimestamp

SpecFormat == InitFormat /\ [][NextFormat]_vars

(* ------------- raycast_integration: recording and cancelling ----------- *)

\* process.returncode after the rec process ended by itself, ended with an
\* error of its own, and after process.terminate(): SIGTERM either ends the
\* process through its own handler (0) or kills it (-15)
ExitedCode == 0
FailedCode == 1
TerminatedCodes == {0, -15}

\* the rec process is running
RecorderRunning == process_state \in {"spawned", "recording"}

InitRecord ==
    /\ PipelineIdle
    /\ SegmenterIdle
    /\ CorrectorIdle
    /\ GuardIdle
    /\ ProcessIdle
    /\ FormatIdle
    /\ thread_pc = "idle"
    /\ progress_window = "open"
    /\ cancel = FALSE
    /\ process_state = "none"
    /\ captured = 0
    /\ elapsed = 0
    /\ returncode = << >>
    /\ success = "none"
    /\ recording_file = FALSE
    /\ cancelledWhileRunning = FALSE
    /\ prompted = FALSE
    /\ transcriptionStarted = FALSE
    /\ callbackRaised = FALSE
    /\ recorderFailed = FALSE

\* recording_process = recording_thread(): the thread is started with
\* cancel = False and calls record_audio
StartRecordingThread ==
    /\ thread_pc = "idle"
    /\ cancel' = FALSE
    /\ thread_pc' = "popen"
    /\ UNCHANGED <<progress_window, process_state, captured, elapsed,
                   returncode, success, recording_file,
                   cancelledWhileRunning, prompted, transcriptionStarted,
                   callbackRaised, recorderFailed>>
    /\ UNCHANGED nonRecorderVars

\* record_audio: process = subprocess.Popen(["rec", output_path, ...]);
\* start_time and end_time are taken
Popen ==
    /\ thread_pc = "popen"
    /\ process_state' = "spawned"
    /\ elapsed' = 0
    /\ thread_pc' = "while"
    /\ UNCHANGED <<progress_window, cancel, captured, returncode, success,
                   recording_file, cancelledWhileRunning, prompted,
                   transcriptionStarted, callbackRaised, recorderFailed>>
    /\ UNCHANGED nonRecorderVars

\* record_audio: Popen raises; "except Exception" returns False
PopenRaises ==
    /\ thread_pc = "popen"
    /\ success' = "False"
    /\ thread_pc' = "returned"
    /\ UNCHANGED <<progress_window, cancel, process_state, captured, elapsed,
                   returncode, recording_file, cancelledWhileRunning,
                   prompted, transcriptionStarted, callbackRaised,
                   recorderFailed>>
    /\ UNCHANGED nonRecorderVars

\* record_audio: "while time.time() < end_time" and, inside,
\* "if process.poll() is not None: break"
WhileTest ==
    /\ thread_pc = "while"
    /\ thread_pc' = IF elapsed < RecordTicks /\ process_state # "exited"
                    THEN "callback" ELSE "after"
    /\ UNCHANGED <<progress_window, cancel, process_state, captured, elapsed,
                   returncode, success, recording_file,
                   cancelledWhileRunning, prompted, transcriptionStarted,
                   callbackRaised, recorderFailed>>
    /\ UNCHANGED nonRecorderVars

\* record_audio: progress_callback(elapsed, duration, remaining), which
\* configures the widgets of the progress window and raises once the window
\* is destroyed ("except Exception" then returns False); time.sleep(0.5)
ProgressCallback ==
    /\ thread_pc = "callback"
    /\ IF progress_window = "destroyed"
       THEN /\ callbackRaised' = TRUE
            /\ success' = "False"
            /\ thread_pc' = "returned"
            /\ elapsed' = elapsed
       ELSE /\ callbackRaised' = callbackRaised
            /\ success' = success
            /\ thread_pc' = "while"
            /\ elapsed' = elapsed + 1
    /\ UNCHANGED <<progress_window, cancel, process_state, captured,
                   returncode, recording_file, cancelledWhileRunning,
                   prompted, transcriptionStarted, recorderFailed>>
    /\ UNCHANGED nonRecorderVars

\* record_audio after the loop: terminate and wait if the process has not
\* ended; return False if process.returncode != 0, else True
AfterLoop ==
    /\ thread_pc = "after"
    /\ \E code \in TerminatedCodes :
          LET rc == IF process_state # "exited" THEN <<code>> ELSE returncode
          IN  /\ returncode' = rc
              /\ success' = IF rc[1] # 0 THEN "False" ELSE "True"
    /\ process_state' = "exited"
    /\ thread_pc' = "returned"
    /\ UNCHANGED <<progress_window, cancel, captured, elapsed, recording_file,
                   cancelledWhileRunning, prompted, transcriptionStarted,
                   callbackRaised, recorderFailed>>
    /\ UNCHANGED nonRecorderVars

\* recording_process_thread after record_audio: the cancel check with the
\* removal of the file, or progress_window.destroy() and the error box
AfterRecordAudio ==
    /\ thread_pc = "returned"
    /\ IF cancel
       THEN /\ recording_file' = FALSE
            /\ progress_window' = progress_window
            /\ thread_pc' = "ended"
       ELSE /\ recording_file' = recording_file
            /\ progress_window' = "destroyed"
            /\ thread_pc' = IF success = "True" THEN "prompt" ELSE "ended"
    /\ UNCHANGED <<cancel, process_state, captured, elapsed, returncode,
                   success, cancelledWhileRunning, prompted,
                   transcriptionStarted, callbackRaised, recorderFailed>>
    /\ UNCHANGED nonRecorderVars

\* messagebox.askyesno("Recording Complete", ...); on yes transcribe_audio
AskTranscribe(answer) ==
    /\ thread_pc = "prompt"
    /\ prompted' = TRUE
    /\ transcriptionStarted' = answer
    /\ thread_pc' = IF answer THEN "transcribe" ELSE "ended"
    /\ UNCHANGED <<progress_window, cancel, process_state, captured, elapsed,
                   returncode, success, recording_file,
                   cancelledWhileRunning, callbackRaised, recorderFailed>>
    /\ UNCHANGED nonRecorderVars

\* transcribe_audio returns and the thread ends
TranscribeAudioReturns ==
    /\ thread_pc = "transcribe"
    /\ thread_pc' = "ended"
    /\ UNCHANGED <<progress_window, cancel, process_state, captured, elapsed,
                   returncode, success, recording_file,
                   cancelledWhileRunning, prompted, transcriptionStarted,
                   callbackRaised, recorderFailed>>
    /\ UNCHANGED nonRecorderVars

\* the cancel button of the progress window, handled by the main loop
cancel_recording ==
    /\ thread_pc # "idle"
    /\ progress_window = "open"
    /\ cancel' = IF thread_pc # "ended" THEN TRUE ELSE cancel
    /\ progress_window' = "destroyed"
    /\ cancelledWhileRunning' = (cancelledWhileRunning \/ RecorderRunning)
    /\ UNCHANGED <<thread_pc, process_state, captured, elapsed, returncode,
                   success, recording_file, prompted, transcriptionStarted,
                   callbackRaised, recorderFailed>>
    /\ UNCHANGED nonRecorderVars

\* the rec process opens its output file
RecOpensFile ==
    /\ process_state = "spawned"
    /\ process_state' = "recording"
    /\ recording_file' = TRUE
    /\ UNCHANGED <<thread_pc, progress_window, cancel, captured, elapsed,
                   returncode, success, cancelledWhileRunning, prompted,
                   transcriptionStarted, callbackRaised, recorderFailed>>
    /\ UNCHANGED nonRecorderVars

\* the rec process captures half a second of audio into the file it has
\* open, whether or not the file still has a name
RecCaptures ==
    /\ process_state = "recording"
    /\ captured < RecordTicks
    /\ captured' = captured + 1
    /\ UNCHANGED <<thread_pc, progress_window, cancel, process_state, elapsed,
                   returncode, success, recording_file,
                   cancelledWhileRunning, prompted, transcriptionStarted,
                   callbackRaised, recorderFailed>>
    /\ UNCHANGED nonRecorderVars

\* the rec process has captured "trim 0 duration" and exits
RecExits ==
    /\ process_state = "recording"
    /\ captured = RecordTicks
    /\ process_state' = "exited"
    /\ returncode' = <<ExitedCode>>
    /\ UNCHANGED <<thread_pc, progress_window, cancel, captured, elapsed,
                   success, recording_file, cancelledWhileRunning, prompted,
                   transcriptionStarted, callbackRaised, recorderFailed>>
    /\ UNCHANGED nonRecorderVars

\* the rec process ends with an error of its own
RecFails ==
    /\ RecorderRunning
    /\ process_state' = "exited"
    /\ returncode' = <<FailedCode>>
    /\ recorderFailed' = TRUE
    /\ UNCHANGED <<thread_pc, progress_window, cancel, captured, elapsed,
                   success, recording_file, cancelledWhileRunning, prompted,
                   transcriptionStarted, callbackRaised>>
    /\ UNCHANGED nonRecorderVars

NextRecord ==
    \/ StartRecordingThread
    \/ Popen
    \/ PopenRaises
    \/ WhileTest
    \/ ProgressCallback
    \/ AfterLoop
    \/ AfterRecordAudio
    \/ \E answer \in BOOLEAN : AskTranscribe(answer)
    \/ TranscribeAudioReturns
    \/ cancel_recording
    \/ RecOpensFile
    \/ RecCaptures
    \/ RecExits
    \/ RecFails

SpecRecord == InitRecord /\ [][NextRecord]_vars

(* ============================== claims ================================ *)

\* the windows of the finished loop, as the chunk results record them
ChunkWindows == [i \in 1..Len(chunks) |-> <<chunks[i].start_time, chunks[i].end_time>>]

\* C1: when the loop of transcribe has ended, the windows it generated cover
\* [0, duration] exactly once: there is a first window and it starts at 0,
\* each window starts where the one before ended, each has end > start and
\* a length of at most the window size, and the last one ends at duration.
C1_WindowsCoverDuration ==
    pc = "combine" =>
        LET w == ChunkWindows
            n == Len(w)
        IN  /\ n >= 1
            /\ w[1][1] = 0
            /\ \A i \in 1..n : w[i][2] > w[i][1]
                               /\ w[i][2] - w[i][1] <= Sec(chunk_size)
            /\ \A i \in 2..n : w[i][1] = w[i - 1][2]
            /\ w[n][2] = duration

\* C2: at every window boundary after the k-th window (k >= 1) the checkpoint
\* file holds the whole in-memory chunk list, which has exactly k entries, the
\* i-th being the result of the i-th window.
C2_CheckpointIsChunkList ==
    (pc = "loop" /\ Len(chunks) >= 1) =>
        /\ checkpoint = File(chunks)
        /\ Len(Content(checkpoint)) * chunk_size = chunk_start
        /\ \A i \in 1..Len(Content(checkpoint)) :
              Content(checkpoint)[i].start_time = Sec((i - 1) * chunk_size)

C2_Witness ==
    pc = "loop" /\ Len(chunks) = 2 /\ checkpoint = File(chunks) /\ chunk_start > 0

C4_NoFinalFromFailedRun ==
    finalWritten =>
        /\ failedAt = NoFailure
        /\ ~extractFailed
        /\ ~RangeHasNext(Len(combineInput) * chunk_size, duration)

\* C5: at most one inference call is active; the inference calls of a run go
\* through the windows in strictly increasing start order; and while the call
\* for a window is active every earlier window has returned its result and
\* the checkpoint holding those results has been written.
C5_SequentialInference ==
    /\ active <= 1
    /\ \A i \in 2..Len(inferLog) : inferLog[i - 1] < inferLog[i]
    /\ pc = "infer" =>
          /\ active = 1
          /\ Len(inferLog) = Len(chunks) + 1
          /\ Len(chunks) >= 1 => checkpoint = File(chunks)

C5_Witness ==
    pc = "infer" /\ active = 1 /\ Len(inferLog) = 2 /\ inferLog[2] > inferLog[1]

\* the chunk list _combine_chunks was called with, once it has returned
Combined == pc \in {"write", "done"}

RECURSIVE SegmentsBefore(_, _)
\* the number of segments of the chunks before the i-th
SegmentsBefore(cs, i) ==
    IF i <= 1 THEN 0 ELSE SegmentsBefore(cs, i - 1) + Len(cs[i - 1].segments)

\* C6: the combined segment sequence holds every segment of every input
\* chunk exactly once, in chunk order and inside a chunk in segment order,
\* with start and end moved by the start of the chunk's window and the text
\* kept.
C6_CombineKeepsEverySegment ==
    Combined =>
        LET cin == combineInput
            out == full_result.segments
        IN  /\ Len(out) = SegmentsBefore(cin, Len(cin) + 1)
            /\ \A i \in 1..Len(cin) : \A j \in 1..Len(cin[i].segments) :
                  out[SegmentsBefore(cin, i) + j] =
                      [start |-> cin[i].segments[j].start + cin[i].start_time,
                       end |-> cin[i].segments[j].end + cin[i].start_time,
                       text |-> cin[i].segments[j].text]

\* the scenario: windows [0,300] with segment (10,12) and [300,600] with (5,7)
C6_Witness ==
    /\ Combined
    /\ Len(combineInput) = 2
    /\ combineInput[1].start_time = 0
    /\ combineInput[1].segments = <<SegA>>
    /\ combineInput[2].start_time = Sec(300)
    /\ combineInput[2].segments = <<SegB>>
    /\ Len(full_result.segments) = 2
    /\ full_result.segments[1].start = Sec(10)
    /\ full_result.segments[1].end = Sec(12)
    /\ full_result.segments[2].start = Sec(305)
    /\ full_result.segments[2].end = Sec(307)

NonDecreasingStarts(segs) ==
    \A i \in 2..Len(segs) : segs[i - 1].start <= segs[i].start

\* the precondition of C7: window starts do not decrease, and each chunk's
\* segments are ordered by chunk-relative start
OrderedInput(cs) ==
    /\ \A i \in 2..Len(cs) : cs[i - 1].start_time <= cs[i].start_time
    /\ \A i \in 1..Len(cs) : NonDecreasingStarts(cs[i].segments)

\* windows that follow each other, and segments that start inside their window
ContiguousInput(cs) ==
    /\ \A i \in 2..Len(cs) : cs[i].start_time = cs[i - 1].end_time
    /\ \A i \in 1..Len(cs) : \A j \in 1..Len(cs[i].segments) :
          /\ cs[i].segments[j].start >= 0
          /\ cs[i].segments[j].start <= cs[i].end_time - cs[i].start_time

\* C7 as stated: for window starts that do not decrease and segments ordered
\* inside each chunk, the global starts of the combined segments do not
\* decrease.
C7_MonotonicAsStated ==
    (Combined /\ OrderedInput(combineInput)) =>
        NonDecreasingStarts(full_result.segments)

\* C7 amended: the same, for windows each of which starts where the one before
\* ended and segments whose chunk-relative start lies inside their window.
C7_MonotonicForContiguousWindows ==
    (Combined /\ OrderedInput(combineInput) /\ ContiguousInput(combineInput)) =>
        NonDecreasingStarts(full_result.segments)

C7_Witness ==
    /\ Combined
    /\ OrderedInput(combineInput)
    /\ ContiguousInput(combineInput)
    /\ Len(combineInput) = 2
    /\ Len(combineInput[1].segments) = 2
    /\ Len(combineInput[2].segments) = 2
    /\ full_result.segments[2].start < full_result.segments[3].start

RECURSIVE JoinWithSpace(_, _)
\* the texts of the chunks from the i-th on, one space between neighbours
JoinWithSpace(cs, i) ==
    IF i > Len(cs) THEN << >>
    ELSE IF i = Len(cs) THEN cs[i].text
    ELSE cs[i].text \o <<" ">> \o JoinWithSpace(cs, i + 1)

\* C8: the combined text is the chunk texts in order with exactly one space
\* between neighbours and none before the first or after the last.
C8_TextJoinedBySingleSpace ==
    Combined => full_result.text = JoinWithSpace(combineInput, 1)

RECURSIVE LengthBefore(_, _)
\* the number of characters of the sentences before the i-th
LengthBefore(ss, i) == IF i <= 1 THEN 0 ELSE LengthBefore(ss, i - 1) + Len(ss[i - 1])

\* a segment boundary lies at character offset n of the returned segments
BoundaryAt(segs, n) ==
    \E k \in 0..(Len(segs) - 1) : LengthBefore(segs, k + 1) = n

IsOneSentence(segment) == \E i \in 1..Len(sentences) : segment = sentences[i]

\* C9: every returned segment has at most max_chars characters, unless it is
\* one single sentence that is itself longer than max_chars.
C9_SegmentWithinLimit ==
    \A k \in 1..Len(segments) :
        \/ Len(segments[k]) <= max_chars
        \/ IsOneSentence(segments[k]) /\ Len(segments[k]) > max_chars

C9_Witness ==
    /\ seg_pc = "done"
    /\ \E k \in 1..Len(segments) :
          Len(segments[k]) = max_chars /\ ~IsOneSentence(segments[k])
    /\ \E k \in 1..Len(segments) :
          Len(segments[k]) > max_chars /\ IsOneSentence(segments[k])

\* w is a capitalised name followed by " said"
IsNameSaid(w) ==
    /\ Len(w) >= 7
    /\ w[1] \in UpperCase
    /\ \A k \in 2..(Len(w) - 5) : w[k] \in LowerCase
    /\ SubSeq(w, Len(w) - 4, Len(w)) = <<" ", "s", "a", "i", "d">>

\* some stretch of the sentence is a discourse marker
ContainsDiscourseMarker(sentence) ==
    \E i \in 1..Len(sentence) : \E j \in i..Len(sentence) :
        \/ SubSeq(sentence, i, j) \in MarkerLiterals
        \/ IsNameSaid(SubSeq(sentence, i, j))

\* C10: a sentence that contains a discourse marker and is reached with a
\* non-empty buffer has the buffer flushed and is the first sentence of the
\* buffer afterwards, and in the returned list a segment begins with it; the
\* scenario text with max_chars = 50 gives its three sentences as segments.
C10_MarkerSentenceStartsSegment ==
    /\ \A i \in 1..Len(flushLog) :
          (ContainsDiscourseMarker(sentences[i]) /\ flushLog[i].bufferBefore > 0) =>
              /\ flushLog[i].limitFlush \/ flushLog[i].markerFlush
              /\ flushLog[i].bufferAfter = 1
              /\ seg_pc = "done" =>
                    BoundaryAt(segments, LengthBefore(sentences, i))
    /\ (seg_pc = "done" /\ seg_text = ScenarioText /\ max_chars = 50) =>
          /\ Len(segments) = 3
          /\ segments = sentences

C10_Witness ==
    /\ seg_pc = "done"
    /\ seg_text = ScenarioText
    /\ max_chars = 50
    /\ Len(segments) = 3
    /\ flushLog[2].markerFlush
    /\ flushLog[3].markerFlush
    /\ ContainsDiscourseMarker(sentences[2])
    /\ ContainsDiscourseMarker(sentences[3])

\* the characters in the buffer when the i-th sentence is reached: those of
\* the flushLog[i].bufferBefore sentences before it
BufferChars(i) ==
    LengthBefore(sentences, i)
        - LengthBefore(sentences, i - flushLog[i].bufferBefore)

\* C11: a sentence causes at most one flush; the limit check comes first, so
\* a sentence that overflows a non-empty buffer is flushed by the limit check
\* whether or not it holds a marker; a sentence reached with an empty buffer
\* causes no flush; no segment is empty and there are at most as many
\* segments as sentences.
C11_AtMostOneFlushPerSentence ==
    /\ \A i \in 1..Len(flushLog) :
          /\ ~(flushLog[i].limitFlush /\ flushLog[i].markerFlush)
          /\ flushLog[i].bufferBefore = 0 =>
                ~flushLog[i].limitFlush /\ ~flushLog[i].markerFlush
          /\ (flushLog[i].bufferBefore > 0
                /\ BufferChars(i) + Len(sentences[i]) > max_chars) =>
                flushLog[i].limitFlush
    /\ \A k \in 1..Len(segments) : segments[k] # << >>
    /\ Len(segments) <= Len(sentences)

C11_Witness ==
    /\ seg_pc = "done"
    /\ Len(flushLog) >= 2
    /\ ContainsDiscourseMarker(sentences[1])
    /\ \E i \in 2..Len(flushLog) :
          /\ flushLog[i].limitFlush
          /\ ContainsDiscourseMarker(sentences[i])

\* C12: correct reaches a fixed point within two passes: with y the result of
\* one call, a third call returns what the second call returned.
C12_FixedPointWithinTwoPasses ==
    Len(cor_outputs) >= 3 => cor_outputs[3] = cor_outputs[2]

\* C13: MemoryGuard never raises: whatever the measurement on entry, the
\* measurement on exit and the cache-clear do, neither __enter__ nor __exit__
\* raises; a failure inside __exit__ leaves the error diagnostic and nothing
\* else, and a missing measurement capability the "not available" diagnostic.
C13_GuardNeverRaises ==
    /\ ~guard_raised
    /\ guard_pc = "done" =>
          /\ Len(diagnostics) = 1
          /\ exit_failed <=> diagnostics = <<"Memory management error">>
          /\ ~has_get_active_memory <=>
                diagnostics = <<"Memory management not available">>

C13_Witness ==
    /\ guard_pc = "done"
    /\ entry_failed
    /\ exit_failed
    /\ cache_clears = 1
    /\ body_raised

\* C14: on exit from a scope, the cache-clear is invoked if and only if the
\* usage then exceeds 1.2 times the usage that was in use when the scope was
\* entered; a scope whose usage grew by 20% or less invokes no cache-clear.
C14_ClearIffUsageExceedsBaseline ==
    guard_pc = "done" =>
        (cache_clears > 0 <=> 5 * active_memory > 6 * entry_usage)

\* C15: when the audio of a window cannot be extracted, inference is not
\* invoked for that window: no inference call is active for a window whose
\* extraction failed.
C15_NoInferenceAfterFailedExtraction ==
    pc = "infer" => extract_ok

\* the run found a checkpoint that holds the results of the first k of its
\* own windows, k >= 1, and has a window k left to do
ValidCheckpointAtStart ==
    /\ checkpointAtStart # NoFile
    /\ LET c == Content(checkpointAtStart)
           k == Len(c)
       IN  /\ k >= 1
           /\ k * chunk_size < IntSeconds(duration)
           /\ \A i \in 1..k :
                 /\ c[i].start_time = Sec((i - 1) * chunk_size)
                 /\ c[i].end_time = Min(Sec(i * chunk_size), duration)

\* C16: a run that finds a valid checkpoint with the results of windows
\* 0..k-1 does no inference for them: its first inference call is the one
\* for window k.
C16_ResumesAfterCheckpointedWindows ==
    (inferLog # << >> /\ ValidCheckpointAtStart) =>
        inferLog[1] = Len(Content(checkpointAtStart)) * chunk_size

\* C17: once transcribe has completed and written the final output, no
\* checkpoint file remains next to it.
C17_NoCheckpointAfterSuccess ==
    (pc = "done" /\ finalWritten) => checkpoint = NoFile

\* the text has no character other than white space
OnlyWhitespace(text) == \A i \in 1..Len(text) : text[i] = " "

\* the text has a character, and none other than sentence enders
OnlySentenceEnders(text) ==
    text # << >> /\ \A i \in 1..Len(text) : text[i] \in {"u3002", ".", "!", "?"}

\* C18 as stated: the empty list is what segment_by_speaker returns for the
\* empty text, for text of white space only and for text of sentence-ending
\* punctuation only.
C18_EmptyListAsStated ==
    (/\ proc_pc = "done"
     /\ OnlyWhitespace(seg_text) \/ OnlySentenceEnders(seg_text))
        => speaker_segments = << >>

\* C18: the text pipeline maps empty input to empty output: correct of the
\* empty text is the empty text, segment_by_speaker returns the empty list
\* for the empty text and for text of white space only (for text of
\* sentence-ending punctuation only it returns that text, in one segment or
\* more), and format_transcript of the empty list is the empty text.
C18_EmptyInputEmptyOutput ==
    proc_pc = "done" =>
          /\ transcription.text = << >> => corrected_text = << >>
          /\ OnlyWhitespace(seg_text) => speaker_segments = << >>
          /\ OnlySentenceEnders(seg_text) =>
                /\ speaker_segments # << >>
                /\ Join(speaker_segments) = seg_text
          /\ transcription.segments = << >> => formatted = << >>

C18_Witness ==
    /\ proc_pc = "done"
    /\ transcription.text = << >>
    /\ transcription.segments = << >>
    /\ speaker_segments = << >>
    /\ text_output = File(SpeakerVersionHeading)

\* a number below 100 in two digits
TwoDigits(n) == <<Digit(n \div 10), Digit(n % 10)>>

\* HH:MM:SS of a whole number of seconds
Clock(s) ==
    TwoDigits(s \div 3600) \o <<":">> \o TwoDigits((s % 3600) \div 60)
        \o <<":">> \o TwoDigits(s % 60)

\* the text from its first to its last character that is not white space
Trimmed(text) ==
    LET inked == {i \in 1..Len(text) : text[i] # " "}
    IN  IF inked = {} THEN << >>
        ELSE SubSeq(text, CHOOSE i \in inked : \A j \in inked : i <= j,
                          CHOOSE i \in inked : \A j \in inked : i >= j)

RECURSIVE Rendered(_, _)
\* the first n entries, a blank line between an entry and the next
Rendered(segs, n) ==
    IF n = 0 THEN << >>
    ELSE Rendered(segs, n - 1)
            \o (IF n > 1 THEN <<"u000a", "u000a">> ELSE << >>)
            \o <<"[">> \o Clock(segs[n].start \div TicksPerSecond)
            \o <<" ", "-", " ">> \o Clock(segs[n].end \div TicksPerSecond)
            \o <<"]", " ">> \o Trimmed(segs[n].text)

\* C19: format_transcript renders one entry per segment, in input order, as
\* "[HH:MM:SS - HH:MM:SS] text" with the text stripped of surrounding white
\* space, one blank line between consecutive entries and nothing after the
\* last; the times are cut to whole seconds s and HH = s div 3600,
\* MM = (s mod 3600) div 60, SS = s mod 60, each in two digits.
C19_TranscriptRendering ==
    proc_pc = "done" =>
        /\ Len(processed_segments) = Len(transcription.segments)
        /\ \A i \in 1..Len(processed_segments) :
              /\ processed_segments[i].start = transcription.segments[i].start
              /\ processed_segments[i].end = transcription.segments[i].end
        /\ formatted = Rendered(processed_segments, Len(processed_segments))

C19_Witness ==
    /\ proc_pc = "done"
    /\ Len(processed_segments) = 2
    /\ processed_segments[1].end = Sec(3661)
    /\ processed_segments[1].text # Trimmed(processed_segments[1].text)
    /\ processed_segments[2].start = Sec(3661)
    /\ formatted # << >>

\* the time is 65.5 s
IsScenarioTime == 2 * fmt_seconds = 131 * TicksPerSecond

\* C20 as stated: for 65.5 s the form with milliseconds is "00:01:05.500",
\* the millisecond field separated from the seconds by a full stop.
C20_MillisecondsAfterFullStop ==
    (IsScenarioTime /\ timestamp_text # << >>) =>
        timestamp_text =
            <<"0", "0", ":", "0", "1", ":", "0", "5", ".", "5", "0", "0">>

\* C20: both formatters cut the time to the unit they display: format_time
\* gives HH:MM:SS of the whole seconds, _format_timestamp the same followed
\* by a comma and the whole milliseconds of the rest in three digits; for
\* 65.5 s they give "00:01:05" and "00:01:05,500".
C20_TruncatedTimestamps ==
    /\ time_text # << >> =>
          time_text = Clock(fmt_seconds \div TicksPerSecond)
    /\ timestamp_text # << >> =>
          LET ms == ((fmt_seconds % TicksPerSecond) * 1000) \div TicksPerSecond
          IN  timestamp_text =
                 Clock(fmt_seconds \div TicksPerSecond) \o <<",">>
                    \o <<Digit(ms \div 100), Digit((ms \div 10) % 10),
                         Digit(ms % 10)>>
    /\ (IsScenarioTime /\ time_text # << >>) =>
          time_text = <<"0", "0", ":", "0", "1", ":", "0", "5">>
    /\ (IsScenarioTime /\ timestamp_text # << >>) =>
          timestamp_text =
              <<"0", "0", ":", "0", "1", ":", "0", "5", ",", "5", "0", "0">>

C20_Witness ==
    /\ IsScenarioTime
    /\ time_text = <<"0", "0", ":", "0", "1", ":", "0", "5">>
    /\ Len(timestamp_text) = 12

\* C22: in what correct returns, no '.', '!' or '?' is immediately followed
\* by a Latin letter, and none is followed by two or more spaces and then a
\* Latin letter.
C22_OneSpaceAfterSentenceMark ==
    Len(cor_outputs) >= 1 =>
        LET out == cor_outputs[1]
            IsMark(c) == c \in {".", "!", "?"}
            IsLatin(c) == c \in LowerCase \cup UpperCase
        IN  \A i \in 1..Len(out) :
               IsMark(out[i]) =>
                  /\ i < Len(out) => ~IsLatin(out[i + 1])
                  /\ \A j \in (i + 3)..Len(out) :
                        (\A k \in (i + 1)..(j - 1) : out[k] = " ")
                            => ~IsLatin(out[j])

\* the text holds a span between curly quotation marks, and one between
\* straight quotation marks
HasCurlySpan(text) ==
    \E i, j \in 1..Len(text) : i < j /\ text[i] = "u201c" /\ text[j] = "u201d"
HasStraightSpan(text) ==
    \E i, j \in 1..Len(text) : i < j /\ text[i] = "u0022" /\ text[j] = "u0022"

\* C23: for an input with a curly-quoted span and a straight-quoted span,
\* what correct returns does not hold two quote styles.
C23_OneQuoteStyle ==
    (/\ Len(cor_outputs) >= 1
     /\ HasCurlySpan(cor_input)
     /\ HasStraightSpan(cor_input)) =>
        LET out == cor_outputs[1]
        IN  ~(/\ \E i \in 1..Len(out) : out[i] \in {"u201c", "u201d"}
              /\ \E i \in 1..Len(out) : out[i] = "u0022")

\* C24: _combine_chunks leaves its input unchanged: once it has returned,
\* the chunk list is the list it was called with, every segment still with
\* its chunk-relative start and end.
C24_CombineLeavesInputUnchanged ==
    pc \in {"write", "done"} => chunks = combineInput

\* the white space at index i follows a sentence ender, with nothing but
\* white space between the two
FollowsEnder(text, i) ==
    \E j \in 1..(i - 1) :
        /\ text[j] \in {"u3002", ".", "!", "?"}
        /\ \A k \in (j + 1)..i : text[k] = " "

RECURSIVE KeptUpTo(_, _)
\* the first n characters of the text without the white space after enders
KeptUpTo(text, n) ==
    IF n = 0 THEN << >>
    ELSE IF text[n] = " " /\ FollowsEnder(text, n) THEN KeptUpTo(text, n - 1)
    ELSE Append(KeptUpTo(text, n - 1), text[n])

\* the text of the non-empty sentences, one after the other
SentenceText(text) ==
    IF \A i \in 1..Len(text) : text[i] = " " THEN << >>
    ELSE KeptUpTo(text, Len(text))

\* C25: segment_by_speaker neither loses, duplicates nor reorders text: the
\* sentences are the pieces of the text that end after each sentence ender,
\* the returned segments joined are the sentences joined, and every segment
\* starts where a sentence starts, so that no sentence is split.
C25_SegmentsKeepTheText ==
    seg_pc = "done" =>
        /\ Join(sentences) = SentenceText(seg_text)
        /\ \A i \in 1..Len(sentences) :
              /\ sentences[i] # << >>
              /\ \A k \in 1..(Len(sentences[i]) - 1) :
                    sentences[i][k] \notin {"u3002", ".", "!", "?"}
              /\ i < Len(sentences) =>
                    sentences[i][Len(sentences[i])] \in {"u3002", ".", "!", "?"}
        /\ Join(segments) = Join(sentences)
        /\ \A k \in 1..Len(segments) :
              /\ segments[k] # << >>
              /\ BoundaryAt(sentences, LengthBefore(segments, k))

C25_Witness ==
    /\ seg_pc = "done"
    /\ Len(segments) >= 2
    /\ Len(sentences) > Len(segments)
    /\ Join(segments) # seg_text

\* the number of windows of length chunk_size that cover [0, duration]
WindowCount ==
    (duration + Sec(chunk_size) - 1) \div Sec(chunk_size)

\* C26: a run in which no step failed and that has ended did one inference
\* call per window of the recording, in increasing order of window start,
\* none twice and none skipped, holds one result per window and wrote the
\* checkpoint of all of them before the final output.
C26_OnePassPerWindow ==
    (pc = "done" /\ ~extractFailed /\ failedAt = NoFailure) =>
        /\ finalWritten
        /\ inferLog = [i \in 1..WindowCount |-> (i - 1) * chunk_size]
        /\ Len(chunks) = WindowCount
        /\ checkpoint # NoFile
        /\ Len(Content(checkpoint)) = WindowCount

\* C27: at the start of every window and after the run has ended, normally
\* or by a fatal error, no temporary clip file exists.
C27_NoClipOutlivesItsWindow ==
    pc \in {"loop", "done", "aborted"} => clips = {}

\* C21: after a cancel pressed while the rec process was running, once the
\* thread and the rec process have ended the recording file does not exist,
\* and neither the "transcribe now?" prompt nor transcription was started.
C21_CancelRemovesRecording ==
    (cancelledWhileRunning /\ thread_pc = "ended" /\ process_state = "exited")
        => /\ ~recording_file
           /\ ~prompted
           /\ ~transcriptionStarted

\* C28: record_audio returns True whenever the rec process captured the
\* whole requested duration without an error of its own, also when the
\* loop's deadline passed before the process had exited.
C28_FullRecordingReportedAsSuccess ==
    (/\ success # "none"
     /\ captured = RecordTicks
     /\ ~recorderFailed
     /\ ~callbackRaised) => success = "True"

====
